---- MODULE Spec2Model ----
(***************************************************************************)
(* Contract billing state machine of src/contract.py: one phone line's    *)
(* contract (TermContract, MTMContract or PrepaidContract), its active    *)
(* Bill, and the monthly driver that calls new_month, bill_call and       *)
(* cancel_contract on it.                                                  *)
(*                                                                         *)
(* Money is kept in thousandths of a currency unit, so that every rate of *)
(* contract.py (0.025, 0.05, 0.1) is a whole number: 300.00 is 300000.    *)
(* The arithmetic is exact; the rounding of Python's floats is not        *)
(* modelled.  Bill (bill.py) is modelled from section 4.1 of the          *)
(* specification: four accumulators and get_cost.                          *)
(*                                                                         *)
(* Two further specifications cover the collaborators of the contracts:   *)
(* SpecHistory, the CallHistory of src/callhistory.py, and SpecFilter,    *)
(* CustomerFilter.apply and LocationFilter.apply of src/filter.py.        *)
(***************************************************************************)
EXTENDS Integers, Sequences, FiniteSets, TLC

\* ---------------------------------------------------------------- bounds
MaxPeriod == 1      \* the driver opens the periods 0..MaxPeriod
MaxCalls  == 2      \* calls the driver bills between two new_month calls
MaxRegistered == 3  \* calls registered into the CallHistory
MaxData   == 2      \* length of the <data> list given to a filter

\* ------------------------------------------------------------- constants
MTM_MONTHLY_FEE   == 50000    \* 50.00
TERM_MONTHLY_FEE  == 20000    \* 20.00
TERM_DEPOSIT      == 300000   \* 300.00
TERM_MINS         == 100      \* minutes
MTM_MINS_COST     == 50       \* 0.05 per minute
TERM_MINS_COST    == 100      \* 0.1 per minute
PREPAID_MINS_COST == 25       \* 0.025 per minute
PREPAID_LOW       == -10000   \* the -10 of `if self.balance > -10`
PREPAID_TOPUP     == 25000    \* the 25 of `self.balance -= 25`

\* Python's None, for start, end, current, bill and the return value.
None == [isNone |-> TRUE]

\* Call.duration, in seconds (>= 0): 0, 2, 40, 60, 150 and 1200 minutes
\* once rounded up.
Durations == {0, 61, 2400, 3600, 9000, 72000}

\* The durations the driver bills on a TermContract (around the 100-minute
\* pool) and on the two contracts without a pool (rounding, and a call long
\* enough to turn a Prepaid balance into debt).
TermDurations == Durations \ {61, 72000}
FlatDurations == Durations \ {2400, 3600, 9000}

\* The <balance> argument of PrepaidContract.__init__, in currency units.
TopUps == {0, 10, 100}

\* Days of the month used for the start date and for the end date.
StartDays == {15}
EndDays == {1, 15}

\* ------------------------------------------------------- datetime.date
Date(y, m, d) == [year |-> y, month |-> m, day |-> d]

\* date.__le__: chronological order.
DateLE(a, b) ==
    \/ a.year < b.year
    \/ a.year = b.year /\ a.month < b.month
    \/ a.year = b.year /\ a.month = b.month /\ a.day <= b.day

\* The (month, year) the driver passes to new_month for its i-th period:
\* December 2025, January 2026, ...
PeriodAt(i) ==
    [month |-> ((11 + i) % 12) + 1, year |-> 2025 + ((11 + i) \div 12)]

\* ceil(call.duration / 60.0) for a non-negative integer duration.
Ceil60(duration) == (duration + 59) \div 60

\* ------------------------------------------------------------------ Bill
NewBill ==
    [billed_min |-> 0, free_min |-> 0, fixed_cost |-> 0, min_rate |-> 0,
     type |-> ""]

set_rates(b, contract_type, min_cost) ==
    [b EXCEPT !.type = contract_type, !.min_rate = min_cost]

add_fixed_cost(b, cost) == [b EXCEPT !.fixed_cost = @ + cost]

add_billed_minutes(b, minutes) == [b EXCEPT !.billed_min = @ + minutes]

add_free_minutes(b, minutes) == [b EXCEPT !.free_min = @ + minutes]

get_cost(b) == b.fixed_cost + b.min_rate * b.billed_min

VARIABLES
    kind,       \* the class of the contract: "TERM", "MTM" or "PREPAID"
    start,      \* Contract.start (a date, or None)
    end,        \* TermContract.end
    current,    \* TermContract.current
    bill,       \* Contract.bill (a Bill, or None)
    balance,    \* PrepaidContract.balance (0 for the other classes)
    period,     \* index of the period of the latest new_month, -1 before
    nCalls,     \* bill_call invocations since the latest new_month
    lastOp,     \* the method the driver called last
    ret,        \* what that call returned (None for a method returning None)
    outcome,    \* "ok", or the exception that call raised
    monthMins,  \* minutes of the calls billed since the latest new_month
    flushes,    \* add_free_minutes invocations since the latest new_month
    cancelled,  \* cancel_contract has been called with a bill installed
    monthSecs,  \* seconds of the calls billed since the latest new_month
    fixedArgs,  \* amounts the latest new_month passed to add_fixed_cost
    deposits,   \* times TermContract.new_month has charged TERM_DEPOSIT
    bills,      \* the Bill objects the driver has created, oldest first
    billRef,    \* which of them Contract.bill refers to (0: None)
    outgoing_calls, \* CallHistory.outgoing_calls, entries in insertion order
    incoming_calls, \* CallHistory.incoming_calls, entries in insertion order
    registered, \* the calls registered so far, with their direction
    hop,        \* the CallHistory method called last
    hquery,     \* the <<month, year>> arguments of that get_monthly_history
    hresult,    \* what that get_monthly_history returned
    customers,  \* the <customers> argument of Filter.apply
    data,       \* the <data> argument of Filter.apply
    filter_string,  \* the <filter_string> argument, split at ", "
    fop,        \* the filter applied last
    fresult     \* what its apply returned

\* The contract, its bills and the driver's records.
cvars == <<kind, start, end, current, bill, balance, period, nCalls, lastOp,
           ret, outcome, monthMins, flushes, cancelled, monthSecs,
           fixedArgs, deposits, bills, billRef>>

\* The call history and the driver's records of it.
hvars == <<outgoing_calls, incoming_calls, registered, hop, hquery, hresult>>

\* The arguments and the result of a filter.
fvars == <<customers, data, filter_string, fop, fresult>>

vars == <<cvars, hvars, fvars>>

\* ------------------------------------------------------- construction
\* TermContract.__init__
TermInit(s, e) ==
    /\ kind = "TERM"
    /\ start = s
    /\ end = e
    /\ current = s
    /\ bill = None
    /\ balance = 0

\* MTMContract.__init__
MTMInit(s) ==
    /\ kind = "MTM"
    /\ start = s
    /\ end = None
    /\ current = None
    /\ bill = None
    /\ balance = 0

\* PrepaidContract.__init__
PrepaidInit(s, b) ==
    /\ kind = "PREPAID"
    /\ start = s
    /\ end = None
    /\ current = None
    /\ bill = None
    /\ balance = -(b * 1000)

StartDates ==
    {Date(PeriodAt(i).year, PeriodAt(i).month, d) : i \in 0..1, d \in StartDays}

EndDates ==
    {Date(PeriodAt(i).year, PeriodAt(i).month, d) :
        i \in 0..(MaxPeriod + 1), d \in EndDays}

\* ----------------------------------------------------------- CallHistory
\* A dict of callhistory.py is the sequence of its entries in insertion
\* order, each a (month, year) key and the list of calls stored under it.
\* An optional int argument is <<>> for None and <<n>> for n.

\* The (month, year) pairs of the registered calls' times.
CallTimes == {<<12, 2025>>, <<1, 2026>>, <<12, 2026>>}

\* `key in d`
DictHas(d, key) == \E i \in 1..Len(d) : d[i].key = key

\* `d[key]`
DictGet(d, key) == d[CHOOSE i \in 1..Len(d) : d[i].key = key].calls

\* The calls of every entry of d, entry after entry.
RECURSIVE DictValues(_)
DictValues(d) ==
    IF d = <<>> THEN <<>> ELSE d[1].calls \o DictValues(Tail(d))

\* Mutant of register_outgoing_call: the list of the month is overwritten.
register_outgoing_call_Overwrites(d, call) ==
    LET find == <<call.month, call.year>>
    IN  IF DictHas(d, find)
        THEN [i \in 1..Len(d) |->
                IF d[i].key = find THEN [d[i] EXCEPT !.calls = <<call>>]
                ELSE d[i]]
        ELSE Append(d, [key |-> find, calls |-> <<call>>])

\* CallHistory.register_outgoing_call: the outgoing_calls it leaves.
register_outgoing_call(d, call) ==
    LET find == <<call.month, call.year>>
    IN  IF DictHas(d, find)
        THEN [i \in 1..Len(d) |->
                IF d[i].key = find
                THEN [d[i] EXCEPT !.calls = Append(@, call)]
                ELSE d[i]]
        ELSE Append(d, [key |-> find, calls |-> <<call>>])

\* CallHistory.register_incoming_call: the incoming_calls it leaves.
register_incoming_call(d, call) ==
    LET find == <<call.month, call.year>>
    IN  IF DictHas(d, find)
        THEN [i \in 1..Len(d) |->
                IF d[i].key = find
                THEN [d[i] EXCEPT !.calls = Append(@, call)]
                ELSE d[i]]
        ELSE Append(d, [key |-> find, calls |-> <<call>>])

\* CallHistory.get_monthly_history: the (outgoing, incoming) pair returned.
get_monthly_history(out, inc, month, year) ==
    IF month # <<>> /\ year # <<>>
    THEN LET key == <<month[1], year[1]>>
         IN  <<IF DictHas(out, key) THEN DictGet(out, key) ELSE <<>>,
               IF DictHas(inc, key) THEN DictGet(inc, key) ELSE <<>> >>
    ELSE <<DictValues(out), DictValues(inc)>>

\* CallHistory.__init__
HistoryInit ==
    /\ outgoing_calls = <<>>
    /\ incoming_calls = <<>>
    /\ registered = <<>>
    /\ hop = "__init__"
    /\ hquery = <<>>
    /\ hresult = <<>>

\* ---------------------------------------------------------------- filters
\* A filter string is the sequence of its fields between ", " separators
\* (str.split(", "), never empty); a field is the text of an integer
\* (val), of another float (val in millionths), of "nan", or other text.
\* Coordinates are in millionths of a degree.
IntField(n) == [kind |-> "int", val |-> n]
FloatField(n) == [kind |-> "float", val |-> n]
NanField == [kind |-> "nan", val |-> 0]
TextField == [kind |-> "text", val |-> 0]

\* int(filter_string) does not raise ValueError.
IntParses(fs) == Len(fs) = 1 /\ fs[1].kind = "int"

\* int(filter_string)
IntOf(fs) == fs[1].val

\* float(field) does not raise ValueError.
FloatParses(field) == field.kind \in {"int", "float", "nan"}

\* float(field): a float is a value, or not a number.
FloatOf(field) ==
    [nan |-> field.kind = "nan",
     v   |-> IF field.kind = "int" THEN field.val * 1000000 ELSE field.val]

\* A float that is a number.
Fl(n) == [nan |-> FALSE, v |-> n]

\* a < b and a <= b on floats: False when either is not a number.
FLt(a, b) == ~a.nan /\ ~b.nan /\ a.v < b.v
FLe(a, b) == ~a.nan /\ ~b.nan /\ a.v <= b.v

\* `x in seq`
InSeq(x, seq) == \E i \in 1..Len(seq) : seq[i] = x

\* Customer.get_id and Customer.get_history.
get_id(c) == c.id
get_history(c) == c.history

\* The calls of the dataset, with the two ends of each.
Call1 == [id |-> 1, src_loc |-> <<-79500000, 43650000>>,
          dst_loc |-> <<-79250000, 43750000>>]
Call2 == [id |-> 2, src_loc |-> <<-79650000, 43580000>>,
          dst_loc |-> <<-79250000, 43780000>>]
Call3 == [id |-> 3, src_loc |-> <<-79200000, 43590000>>,
          dst_loc |-> <<-79300000, 43700000>>]
Calls == {Call1, Call2, Call3}

\* The customers of the dataset: 1111 made calls 1 and 2 and received
\* calls 3 and 1, 2222 made call 3 and received call 2.
CustomerLists ==
    {<<[id |-> 1111, history |-> << <<Call1, Call2>>, <<Call3, Call1>> >>],
       [id |-> 2222, history |-> << <<Call3>>, <<Call2>> >>]>>}

\* The lists of distinct calls given as <data>.
DataLists ==
    {d \in UNION {[1..n -> Calls] : n \in 0..MaxData} :
        \A i, j \in 1..Len(d) : d[i] = d[j] => i = j}

\* The filter strings: "1111", "9999", "abc",
\* "-79.6, 43.6, -79.3, 43.7", "-79.6, nan, -79.3, 43.7",
\* "-79.6, 43.6, -79.3", "-80.0, 43.6, -79.3, 43.7", "-79.6, abc, -79.3, 43.7".
FilterStrings ==
    {<<IntField(1111)>>,
     <<IntField(9999)>>,
     <<TextField>>,
     <<FloatField(-79600000), FloatField(43600000),
       FloatField(-79300000), FloatField(43700000)>>,
     <<FloatField(-79600000), NanField,
       FloatField(-79300000), FloatField(43700000)>>,
     <<FloatField(-79600000), FloatField(43600000), FloatField(-79300000)>>,
     <<FloatField(-80000000), FloatField(43600000),
       FloatField(-79300000), FloatField(43700000)>>,
     <<FloatField(-79600000), TextField,
       FloatField(-79300000), FloatField(43700000)>>}

\* The calls of the customers whose id is n, outgoing then incoming.
RECURSIVE HistoryOf(_, _)
HistoryOf(cs, n) ==
    IF cs = <<>> THEN <<>>
    ELSE (IF get_id(cs[1]) = n
          THEN get_history(cs[1])[1] \o get_history(cs[1])[2]
          ELSE <<>>) \o HistoryOf(Tail(cs), n)

\* CustomerFilter.apply
CustomerFilter(cs, dat, fs) ==
    IF ~IntParses(fs) THEN dat
    ELSE LET filter_calls == HistoryOf(cs, IntOf(fs))
             unique_calls ==
                SelectSeq(filter_calls,
                          LAMBDA call : ~InSeq(call, filter_calls))
         IN  IF unique_calls # <<>> THEN unique_calls ELSE dat

\* The corners LocationFilter.apply names MAP_MIN and MAP_MAX.
MAP_MIN == <<Fl(-79697878), Fl(43799568)>>
MAP_MAX == <<Fl(-79196382), Fl(43576959)>>

\* LocationFilter.apply
LocationFilter(cs, dat, fs) ==
    IF \E i \in 1..4 : i > Len(fs) \/ ~FloatParses(fs[i]) THEN dat
    ELSE LET lowerlong == FloatOf(fs[1])
             lowerlat  == FloatOf(fs[2])
             upperlong == FloatOf(fs[3])
             upperlat  == FloatOf(fs[4])
         IN  IF \/ FLt(lowerlong, MAP_MIN[1])
                \/ FLt(MAP_MAX[1], upperlong)
                \/ FLt(lowerlat, MAP_MIN[2])
                \/ FLt(MAP_MAX[2], lowerlat)
             THEN dat
             ELSE SelectSeq(dat, LAMBDA c :
                    \/ /\ FLe(lowerlong, Fl(c.src_loc[1]))
                       /\ FLe(Fl(c.src_loc[1]), upperlong)
                       /\ FLe(lowerlat, Fl(c.src_loc[2]))
                       /\ FLe(Fl(c.src_loc[2]), upperlat)
                    \/ /\ FLe(lowerlong, Fl(c.dst_loc[1]))
                       /\ FLe(Fl(c.dst_loc[1]), upperlong)
                       /\ FLe(lowerlat, Fl(c.dst_loc[2]))
                       /\ FLe(Fl(c.dst_loc[2]), upperlat))

\* No filter has been applied: the state of the filters outside SpecFilter.
FilterIdle ==
    /\ customers = <<>>
    /\ data = <<>>
    /\ filter_string = <<TextField>>
    /\ fop = "none"
    /\ fresult = <<>>

\* The arguments a filter is applied to.
FilterInputs ==
    /\ customers \in CustomerLists
    /\ data \in DataLists
    /\ filter_string \in FilterStrings
    /\ fop = "none"
    /\ fresult = <<>>

\* ------------------------------------------------------- initial states
\* The contract as constructed, no period opened yet.
ContractInit ==
    /\ \/ \E s \in StartDates, e \in EndDates : TermInit(s, e)
       \/ \E s \in StartDates : MTMInit(s)
       \/ \E s \in StartDates, b \in TopUps : PrepaidInit(s, b)
    /\ period = -1
    /\ nCalls = 0
    /\ lastOp = "__init__"
    /\ ret = None
    /\ outcome = "ok"
    /\ monthMins = 0
    /\ flushes = 0
    /\ cancelled = FALSE
    /\ monthSecs = 0
    /\ fixedArgs = {}
    /\ deposits = 0
    /\ bills = <<>>
    /\ billRef = 0

\* One contract, for the specifications that are not about contracts.
ContractIdle == ContractInit /\ kind = "MTM" /\ start.month = 12

Init == ContractInit /\ HistoryInit /\ FilterIdle

InitHistory == ContractIdle /\ HistoryInit /\ FilterIdle

InitFilter == ContractIdle /\ HistoryInit /\ FilterInputs

\* ---------------------------------------------------------- new_month
\* Mutant of NewMonthRef: self.bill is assigned only while it is None.
NewMonthRef_KeepsOld(oldRef, newRef) == IF oldRef = 0 THEN newRef ELSE oldRef

\* `self.bill = bill` of every new_month: Contract.bill refers to the
\* object passed in, whatever it referred to before.
NewMonthRef(oldRef, newRef) == newRef

\* The driver opens period p: it creates a Bill, new_month leaves it as nb
\* after passing the amounts to add_fixed_cost, and Contract.bill is rebound.
Opened(p, nb, amounts) ==
    /\ bills' = Append(bills, nb)
    /\ billRef' = NewMonthRef(billRef, Len(bills) + 1)
    /\ bill' = bills'[billRef']
    /\ fixedArgs' = amounts
    /\ deposits' = deposits +
            (IF kind = "TERM" /\ TERM_DEPOSIT \in amounts THEN 1 ELSE 0)
    /\ period' = p
    /\ nCalls' = 0
    /\ monthMins' = 0
    /\ monthSecs' = 0
    /\ flushes' = 0
    /\ lastOp' = "new_month"
    /\ ret' = None
    /\ outcome' = "ok"
    /\ UNCHANGED <<hvars, fvars>>

\* Mutant of TermNewMonthBill: the deposit is charged in every month.
TermNewMonthBill_AlwaysDeposit(s, month, year, b) ==
    LET b0 == [b EXCEPT !.free_min = 0]
        b1 == add_fixed_cost(b0, TERM_DEPOSIT)
        b2 == set_rates(b1, "TERM", TERM_MINS_COST)
    IN  add_fixed_cost(b2, TERM_MONTHLY_FEE)

\* TermContract.new_month: the bill it installs.
TermNewMonthBill(s, month, year, b) ==
    LET b0 == [b EXCEPT !.free_min = 0]
        b1 == IF s.month = month /\ s.year = year
              THEN add_fixed_cost(b0, TERM_DEPOSIT)
              ELSE b0
        b2 == set_rates(b1, "TERM", TERM_MINS_COST)
    IN  add_fixed_cost(b2, TERM_MONTHLY_FEE)

\* Mutant of TermNewMonthCurrent: only the month of current is advanced.
TermNewMonthCurrent_KeepsYear(cur, month, year) == Date(cur.year, month, 1)

\* TermContract.new_month: the date it leaves in self.current.
TermNewMonthCurrent(cur, month, year) == Date(year, month, 1)

TermNewMonth(p) ==
    /\ kind = "TERM"
    /\ current' = TermNewMonthCurrent(current, PeriodAt(p).month,
                                      PeriodAt(p).year)
    /\ LET nb == TermNewMonthBill(start, PeriodAt(p).month, PeriodAt(p).year,
                                  NewBill)
       IN  Opened(p, nb, {TERM_MONTHLY_FEE}
                            \cup ({nb.fixed_cost - TERM_MONTHLY_FEE} \ {0}))
    /\ UNCHANGED <<kind, start, end, balance, cancelled>>

\* Mutant of MTMNewMonthBill: the monthly fee is not charged.
MTMNewMonthBill_NoFee(b) == set_rates(b, "MTM", MTM_MINS_COST)

\* MTMContract.new_month: the bill it installs.
MTMNewMonthBill(b) ==
    add_fixed_cost(set_rates(b, "MTM", MTM_MINS_COST), MTM_MONTHLY_FEE)

MTMNewMonth(p) ==
    /\ kind = "MTM"
    /\ LET nb == MTMNewMonthBill(NewBill)
       IN  Opened(p, nb, {nb.fixed_cost})
    /\ UNCHANGED <<kind, start, end, current, balance, cancelled>>

\* Mutant of PrepaidNewMonthResult: the top-up is charged to the bill and
\* the balance is not credited.
PrepaidNewMonthResult_NoCredit(bal, b) ==
    LET b0 == add_fixed_cost(b, bal)
        low == bal > PREPAID_LOW
        b1 == IF low THEN add_fixed_cost(b0, PREPAID_TOPUP) ELSE b0
    IN  [balance |-> bal, bill |-> set_rates(b1, "PREPAID", PREPAID_MINS_COST)]

\* Mutant of PrepaidNewMonthResult: the threshold test written as >=.
PrepaidNewMonthResult_TopUpAtThreshold(bal, b) ==
    LET b0 == add_fixed_cost(b, bal)
        low == bal >= PREPAID_LOW
        bal1 == IF low THEN bal - PREPAID_TOPUP ELSE bal
        b1 == IF low THEN add_fixed_cost(b0, PREPAID_TOPUP) ELSE b0
    IN  [balance |-> bal1, bill |-> set_rates(b1, "PREPAID", PREPAID_MINS_COST)]

\* PrepaidContract.new_month: the balance and the bill it leaves.
PrepaidNewMonthResult(bal, b) ==
    LET b0 == add_fixed_cost(b, bal)
        low == bal > PREPAID_LOW
        bal1 == IF low THEN bal - PREPAID_TOPUP ELSE bal
        b1 == IF low THEN add_fixed_cost(b0, PREPAID_TOPUP) ELSE b0
    IN  [balance |-> bal1, bill |-> set_rates(b1, "PREPAID", PREPAID_MINS_COST)]

PrepaidNewMonth(p) ==
    /\ kind = "PREPAID"
    /\ balance' = PrepaidNewMonthResult(balance, NewBill).balance
    /\ LET nb == PrepaidNewMonthResult(balance, NewBill).bill
       IN  Opened(p, nb, {balance} \cup ({nb.fixed_cost - balance} \ {0}))
    /\ UNCHANGED <<kind, start, end, current, cancelled>>

\* ---------------------------------------------------------- bill_call
\* What the driver records when bill_call returns or raises.
Called(secs, mins, flushed, exc) ==
    /\ bills' = IF billRef = 0 THEN bills ELSE [bills EXCEPT ![billRef] = bill']
    /\ nCalls' = nCalls + 1
    /\ monthSecs' = monthSecs + secs
    /\ monthMins' = monthMins + mins
    /\ flushes' = flushes + (IF flushed THEN 1 ELSE 0)
    /\ lastOp' = "bill_call"
    /\ ret' = None
    /\ outcome' = exc
    /\ UNCHANGED <<kind, start, end, current, period, cancelled, fixedArgs,
                   deposits, billRef, hvars, fvars>>

\* Mutant of TermBillCallResult: the pool usage is subtracted from the
\* excess instead of added to it.
TermBillCallResult_SignSlip(b, call_time) ==
    LET excess == call_time - (TERM_MINS + b.free_min)
    IN  IF b.free_min + call_time < TERM_MINS
        THEN [bill |-> [b EXCEPT !.free_min = @ + call_time],
              flushed |-> FALSE]
        ELSE IF b.free_min - TERM_MINS # 0
        THEN LET b1 == [b EXCEPT !.free_min = @ + (call_time - excess)]
                 b2 == add_free_minutes(b1, b1.free_min)
             IN  [bill |-> add_billed_minutes(b2, excess), flushed |-> TRUE]
        ELSE [bill |-> add_billed_minutes(b, excess), flushed |-> FALSE]

\* Mutant of TermBillCallResult: the crossing call is billed whole.
TermBillCallResult_BillsWholeCall(b, call_time) ==
    LET excess == call_time - (TERM_MINS - b.free_min)
    IN  IF b.free_min + call_time < TERM_MINS
        THEN [bill |-> [b EXCEPT !.free_min = @ + call_time],
              flushed |-> FALSE]
        ELSE IF b.free_min - TERM_MINS # 0
        THEN LET b1 == [b EXCEPT !.free_min = @ + (call_time - excess)]
                 b2 == add_free_minutes(b1, b1.free_min)
             IN  [bill |-> add_billed_minutes(b2, call_time),
                  flushed |-> TRUE]
        ELSE [bill |-> add_billed_minutes(b, excess), flushed |-> FALSE]

\* TermContract.bill_call on an installed bill: the bill it leaves, and
\* whether it called add_free_minutes.
TermBillCallResult(b, call_time) ==
    LET excess == call_time - (TERM_MINS - b.free_min)
    IN  IF b.free_min + call_time < TERM_MINS
        THEN [bill |-> [b EXCEPT !.free_min = @ + call_time],
              flushed |-> FALSE]
        ELSE IF b.free_min - TERM_MINS # 0
        THEN LET b1 == [b EXCEPT !.free_min = @ + (call_time - excess)]
                 b2 == add_free_minutes(b1, b1.free_min)
             IN  [bill |-> add_billed_minutes(b2, excess), flushed |-> TRUE]
        ELSE [bill |-> add_billed_minutes(b, excess), flushed |-> FALSE]

TermBillCall(duration) ==
    /\ kind = "TERM"
    /\ nCalls < MaxCalls
    /\ IF bill = None
       THEN \* self.bill.free_min raises before anything is written
            /\ UNCHANGED <<bill, balance>>
            /\ Called(0, 0, FALSE, "AttributeError")
       ELSE LET r == TermBillCallResult(bill, Ceil60(duration))
            IN  /\ bill' = r.bill
                /\ UNCHANGED balance
                /\ Called(duration, Ceil60(duration), r.flushed, "ok")

\* Mutant of ContractBillCallBill: the minutes are rounded down.
ContractBillCallBill_Floor(b, duration) ==
    add_billed_minutes(b, duration \div 60)

\* Contract.bill_call on an installed bill.
ContractBillCallBill(b, duration) == add_billed_minutes(b, Ceil60(duration))

\* MTMContract inherits Contract.bill_call.
MTMBillCall(duration) ==
    /\ kind = "MTM"
    /\ nCalls < MaxCalls
    /\ IF bill = None
       THEN /\ UNCHANGED <<bill, balance>>
            /\ Called(0, 0, FALSE, "AttributeError")
       ELSE /\ bill' = ContractBillCallBill(bill, duration)
            /\ UNCHANGED balance
            /\ Called(duration, Ceil60(duration), FALSE, "ok")

\* Mutant of PrepaidBillCallBalance: the minutes are rounded down.
PrepaidBillCallBalance_Floor(bal, duration) ==
    bal + (duration \div 60) * PREPAID_MINS_COST

\* PrepaidContract.bill_call: the balance it leaves (written first).
PrepaidBillCallBalance(bal, duration) ==
    bal + Ceil60(duration) * PREPAID_MINS_COST

PrepaidBillCall(duration) ==
    /\ kind = "PREPAID"
    /\ nCalls < MaxCalls
    /\ balance' = PrepaidBillCallBalance(balance, duration)
    /\ IF bill = None
       THEN \* the balance is already written when self.bill.... raises
            /\ UNCHANGED bill
            /\ Called(0, 0, FALSE, "AttributeError")
       ELSE /\ bill' = add_billed_minutes(bill, Ceil60(duration))
            /\ Called(duration, Ceil60(duration), FALSE, "ok")

\* ---------------------------------------------------- cancel_contract
\* What the driver records when cancel_contract returns or raises.
Cancelled(amount, exc) ==
    /\ cancelled' = (cancelled \/ bill # None)
    /\ lastOp' = "cancel_contract"
    /\ ret' = amount
    /\ outcome' = exc
    /\ UNCHANGED <<kind, end, current, bill, balance, period, nCalls,
                   monthMins, flushes, monthSecs, fixedArgs, deposits,
                   bills, billRef, hvars, fvars>>

\* Mutant of TermCancelAmount: the comparison written as <.
TermCancelAmount_StrictlyBefore(e, cur) ==
    IF DateLE(e, cur) /\ e # cur THEN 0 ELSE TERM_DEPOSIT - TERM_MONTHLY_FEE

\* TermContract.cancel_contract: the amount it returns.
TermCancelAmount(e, cur) ==
    IF DateLE(e, cur) THEN 0 ELSE TERM_DEPOSIT - TERM_MONTHLY_FEE

TermCancelContract ==
    /\ kind = "TERM"
    /\ UNCHANGED start
    /\ Cancelled(TermCancelAmount(end, current), "ok")

\* MTMContract inherits Contract.cancel_contract.
MTMCancelContract ==
    /\ kind = "MTM"
    /\ start' = None
    /\ IF bill = None
       THEN Cancelled(None, "AttributeError")
       ELSE Cancelled(get_cost(bill), "ok")

\* Mutant of PrepaidCancelAmount: the balance is returned whatever its sign.
PrepaidCancelAmount_Signed(bal) == bal

\* PrepaidContract.cancel_contract: the amount it returns.
PrepaidCancelAmount(bal) == IF bal <= 0 THEN 0 ELSE bal

PrepaidCancelContract ==
    /\ kind = "PREPAID"
    /\ UNCHANGED start
    /\ Cancelled(PrepaidCancelAmount(balance), "ok")

\* ------------------------------------------------------ specification
Next ==
    \/ \E p \in (period + 1)..MaxPeriod : TermNewMonth(p)
    \/ \E p \in (period + 1)..MaxPeriod : MTMNewMonth(p)
    \/ \E p \in (period + 1)..MaxPeriod : PrepaidNewMonth(p)
    \/ \E d \in TermDurations : TermBillCall(d)
    \/ \E d \in FlatDurations : MTMBillCall(d)
    \/ \E d \in FlatDurations : PrepaidBillCall(d)
    \/ TermCancelContract
    \/ MTMCancelContract
    \/ PrepaidCancelContract

Spec == Init /\ [][Next]_vars

\* ------------------------------------------- the CallHistory in use
\* The call registered next: a new Call object, made at time t.
NewCall(t) == [id |-> Len(registered) + 1, month |-> t[1], year |-> t[2]]

RegisterOutgoingCall(t) ==
    /\ Len(registered) < MaxRegistered
    /\ outgoing_calls' = register_outgoing_call(outgoing_calls, NewCall(t))
    /\ registered' = Append(registered, [dir |-> "out", call |-> NewCall(t)])
    /\ hop' = "register_outgoing_call"
    /\ hquery' = <<>>
    /\ hresult' = <<>>
    /\ UNCHANGED <<incoming_calls, cvars, fvars>>

RegisterIncomingCall(t) ==
    /\ Len(registered) < MaxRegistered
    /\ incoming_calls' = register_incoming_call(incoming_calls, NewCall(t))
    /\ registered' = Append(registered, [dir |-> "in", call |-> NewCall(t)])
    /\ hop' = "register_incoming_call"
    /\ hquery' = <<>>
    /\ hresult' = <<>>
    /\ UNCHANGED <<outgoing_calls, cvars, fvars>>

GetMonthlyHistory(month, year) ==
    /\ hresult' = get_monthly_history(outgoing_calls, incoming_calls,
                                      month, year)
    /\ hop' = "get_monthly_history"
    /\ hquery' = <<month, year>>
    /\ UNCHANGED <<outgoing_calls, incoming_calls, registered, cvars, fvars>>

\* The month and year arguments tried: None, or one of a call time.
MonthArgs == {<<>>} \cup {<<t[1]>> : t \in CallTimes}
YearArgs == {<<>>} \cup {<<t[2]>> : t \in CallTimes}

NextHistory ==
    \/ \E t \in CallTimes : RegisterOutgoingCall(t)
    \/ \E t \in CallTimes : RegisterIncomingCall(t)
    \/ \E month \in MonthArgs, year \in YearArgs :
            GetMonthlyHistory(month, year)

SpecHistory == InitHistory /\ [][NextHistory]_vars

\* ------------------------------------------------ the filters in use
CustomerFilterApply ==
    /\ fresult' = CustomerFilter(customers, data, filter_string)
    /\ fop' = "CustomerFilter"
    /\ UNCHANGED <<customers, data, filter_string, cvars, hvars>>

LocationFilterApply ==
    /\ fresult' = LocationFilter(customers, data, filter_string)
    /\ fop' = "LocationFilter"
    /\ UNCHANGED <<customers, data, filter_string, cvars, hvars>>

NextFilter == CustomerFilterApply \/ LocationFilterApply

SpecFilter == InitFilter /\ [][NextFilter]_vars

\* ------------------------------------------------------------ properties
Max0(n) == IF n > 0 THEN n ELSE 0

\* The first day of the period of the latest new_month.
PeriodStart == Date(PeriodAt(period).year, PeriodAt(period).month, 1)

\* C1: TermContract, within a month: once the calls of the month have
\* brought pool usage to the 100-minute capacity, the bill's
\* free-minutes-used is exactly 100, in every later state of the month.
C1_FreeMinutesCapped ==
    (kind = "TERM" /\ bill # None /\ monthMins >= TERM_MINS)
        => bill.free_min = TERM_MINS

\* C2: TermContract: a call made once the pool is exhausted is billed its
\* own minutes and nothing more, so that in every state of a month
\* billed-minutes is max(0, total call minutes - 100).
C2_BilledIsOverage ==
    (kind = "TERM" /\ bill # None)
        => bill.billed_min = Max0(monthMins - TERM_MINS)

\* C3: TermContract.bill_call, on the call that crosses the threshold (the
\* month's minutes were below 100 before the call and are at least 100 with
\* it): nothing was billed before, and billed-minutes increases by exactly
\* the excess, used + m - 100.
C3_CrossingBillsExcess ==
    [][(/\ kind = "TERM"
        /\ bill # None
        /\ lastOp' = "bill_call"
        /\ outcome' = "ok"
        /\ monthMins < TERM_MINS
        /\ monthMins' >= TERM_MINS)
       => /\ bill.free_min = monthMins
          /\ bill.billed_min = 0
          /\ bill'.billed_min = monthMins' - TERM_MINS]_vars

\* C3 witness: calls of 60 then 60 minutes have billed 0 then 20.
C3_Witness ==
    /\ kind = "TERM"
    /\ lastOp = "bill_call"
    /\ outcome = "ok"
    /\ nCalls = 2
    /\ monthMins = 120
    /\ bill.billed_min = 20

\* C4: TermContract: in every month add_free_minutes is called at most
\* once, by the call that crosses the threshold.
C4_FlushAtMostOnce == kind = "TERM" => flushes <= 1

\* C5: TermContract: while the calls of a month sum to at most 100 minutes
\* (100 included), free-minutes-used is that sum and billed-minutes is 0.
C5_WithinPool ==
    (kind = "TERM" /\ bill # None /\ monthMins <= TERM_MINS)
        => (bill.free_min = monthMins /\ bill.billed_min = 0)

\* C6: TermContract.cancel_contract returns 0 when the end date is on or
\* before the current-period marker (the first day of the period of the
\* latest new_month, the start date before any new_month) and
\* deposit - monthly fee = 280 otherwise, whatever the active bill holds.
C6_TermCancelAmount ==
    (kind = "TERM" /\ lastOp = "cancel_contract")
        => /\ outcome = "ok"
           /\ current = (IF period < 0 THEN start ELSE PeriodStart)
           /\ ret = (IF DateLE(end, current) THEN 0 ELSE 280000)

\* C6 witness: cancelled on the very day the term ends, with calls billed.
C6_Witness ==
    /\ kind = "TERM"
    /\ lastOp = "cancel_contract"
    /\ period >= 0
    /\ end = current
    /\ bill.billed_min > 0
    /\ ret = 0

\* C7: after a cancel_contract called with a bill installed, start is None,
\* for every variant.
C7_CancelClearsStart ==
    (lastOp = "cancel_contract" /\ bill # None) => start = None

\* C8: once cancel_contract has been called (with a bill installed, as it
\* requires), no step changes the active bill (the Term pool included) or
\* the Prepaid balance.
C8_CancelIsTerminal ==
    [][cancelled => (bill' = bill /\ balance' = balance)]_vars

\* C9: PrepaidContract.new_month on a fresh bill, with balance b before the
\* call: the bill's fixed cost is b, plus 25 iff b > -10, and the balance
\* is b - 25 iff b > -10 and b otherwise; with b = -100 there is no
\* recharge and the fixed cost is -100.
C9_PrepaidNewMonth ==
    [][(kind = "PREPAID" /\ lastOp' = "new_month")
       => /\ bill'.fixed_cost = balance + (IF balance > -10000 THEN 25000 ELSE 0)
          /\ balance' = (IF balance > -10000 THEN balance - 25000 ELSE balance)
          /\ balance = -100000
                => (bill'.fixed_cost = -100000 /\ balance' = -100000)]_vars

\* C9 witness: the first new_month of a contract created with top-up 100.
C9_Witness ==
    /\ kind = "PREPAID"
    /\ lastOp = "new_month"
    /\ nCalls = 0
    /\ balance = -100000
    /\ bill.fixed_cost = -100000

\* C10: PrepaidContract.cancel_contract returns 0 when the balance is <= 0
\* and the balance when it is positive, so never a negative amount.
C10_PrepaidCancelAmount ==
    (kind = "PREPAID" /\ lastOp = "cancel_contract")
        => /\ outcome = "ok"
           /\ ret = (IF balance <= 0 THEN 0 ELSE balance)
           /\ ret >= 0

\* C10 witness: a cancellation with debt on the balance.
C10_Witness ==
    /\ kind = "PREPAID"
    /\ lastOp = "cancel_contract"
    /\ period >= 0
    /\ balance > 0
    /\ ret = balance

\* C11: PrepaidContract.bill_call on an installed bill, for a call of d
\* seconds and m = ceil(d / 60) minutes: the balance increases by exactly
\* m x 0.025 and billed-minutes by exactly m; fixed cost, rate and
\* free-minutes do not change, and no minute is absorbed by a pool.
C11_PrepaidBillCall ==
    [][(kind = "PREPAID" /\ bill # None /\ lastOp' = "bill_call")
       => LET d == monthSecs' - monthSecs
              m == bill'.billed_min - bill.billed_min
          IN  /\ outcome' = "ok"
              /\ 60 * (m - 1) < d /\ d <= 60 * m
              /\ balance' = balance + m * 25
              /\ bill'.fixed_cost = bill.fixed_cost
              /\ bill'.min_rate = bill.min_rate
              /\ bill'.free_min = bill.free_min
              /\ bill'.free_min = 0
              /\ bill'.billed_min = monthMins']_vars

\* C11 witness: a 61-second call has been billed as 2 minutes.
C11_Witness ==
    /\ kind = "PREPAID"
    /\ lastOp = "bill_call"
    /\ outcome = "ok"
    /\ monthSecs = 61
    /\ bill.billed_min = 2

\* C12 as claimed: MTMContract: the month's cost is the monthly fee plus
\* ceil(total seconds billed / 60) x the rate, however the seconds are
\* split into calls.
C12_CostOfTotalSeconds ==
    (kind = "MTM" /\ bill # None)
        => get_cost(bill) = 50000 + Ceil60(monthSecs) * 50

\* C12 as amended: MTMContract: the month's cost is the monthly fee plus
\* the sum over the calls of ceil(seconds / 60), x the rate; the sum is
\* never below ceil(total seconds / 60).
C12_CostOfPerCallMinutes ==
    (kind = "MTM" /\ bill # None)
        => /\ get_cost(bill) = 50000 + monthMins * 50
           /\ monthMins >= Ceil60(monthSecs)

\* C12 witness: two calls of 61 seconds cost the fee plus 4 minutes.
C12_Witness ==
    /\ kind = "MTM"
    /\ lastOp = "bill_call"
    /\ nCalls = 2
    /\ monthSecs = 122
    /\ get_cost(bill) = 50200

\* C13: MTMContract, in every state after a new_month: billed-minutes is
\* the sum over the month's calls of ceil(duration / 60), free-minutes-used
\* is 0, the fixed cost is the monthly fee 50 charged once, and
\* cancel_contract returns the bill's get_cost().
C13_MTMBilling ==
    (kind = "MTM" /\ bill # None)
        => /\ bill.billed_min = monthMins
           /\ bill.free_min = 0
           /\ bill.fixed_cost = 50000
           /\ fixedArgs = {50000}
           /\ lastOp = "cancel_contract"
                => (outcome = "ok" /\ ret = 50000 + 50 * monthMins
                                   /\ ret = get_cost(bill))

\* C13 witness: a cancellation after calls have been billed.
C13_Witness ==
    /\ kind = "MTM"
    /\ lastOp = "cancel_contract"
    /\ outcome = "ok"
    /\ monthMins = 1202
    /\ ret = 110100

\* C14: TermContract.new_month, over strictly increasing periods and with
\* a fresh bill each time: the deposit 300 is charged exactly when the
\* month and year are those of the start date, so at most once; the
\* monthly fee 20 is charged once and the rate is set to 0.1 every time.
C14_TermNewMonth ==
    [][(kind = "TERM" /\ lastOp' = "new_month")
       => LET first == /\ start.month = PeriodAt(period').month
                       /\ start.year = PeriodAt(period').year
          IN  /\ period' > period
              /\ bill'.fixed_cost = 20000 + (IF first THEN 300000 ELSE 0)
              /\ bill'.min_rate = 100
              /\ deposits' = deposits + (IF first THEN 1 ELSE 0)
              /\ deposits' <= 1]_vars

\* C14 witness: the month after the one that charged the deposit.
C14_Witness ==
    /\ kind = "TERM"
    /\ lastOp = "new_month"
    /\ period = 1
    /\ deposits = 1
    /\ bill.fixed_cost = 20000

\* C15: for every variant, in every state after a new_month: get_cost() is
\* non-negative when every amount passed to add_fixed_cost was
\* non-negative and the rate is >= 0.
C15_CostNonNegative ==
    (/\ bill # None
     /\ \A a \in fixedArgs : a >= 0
     /\ bill.min_rate >= 0)
        => get_cost(bill) >= 0

\* C15 witness: a Prepaid month opened with no credit left, calls billed.
C15_Witness ==
    /\ kind = "PREPAID"
    /\ lastOp = "bill_call"
    /\ outcome = "ok"
    /\ fixedArgs = {0, 25000}
    /\ bill.billed_min > 0
    /\ get_cost(bill) > 0

\* C19: new_month replaces the active bill: Contract.bill then refers to
\* the new Bill object, which holds no minutes and only that new_month's
\* charges; no step changes a Bill object other than the active one, and
\* only new_month changes which object is active.
C19_NewMonthReplacesBill ==
    [][/\ \A i \in 1..Len(bills) : i # billRef' => bills'[i] = bills[i]
       /\ billRef' > 0 => bill' = bills'[billRef']
       /\ lastOp' # "new_month" => billRef' = billRef
       /\ lastOp' = "new_month"
            => /\ billRef' = Len(bills) + 1
               /\ Len(bills') = Len(bills) + 1
               /\ bill'.billed_min = 0
               /\ bill'.free_min = 0
               /\ bill'.fixed_cost =
                    (CASE kind = "TERM" ->
                            20000 + (IF TERM_DEPOSIT \in fixedArgs'
                                     THEN 300000 ELSE 0)
                       [] kind = "MTM" -> 50000
                       [] kind = "PREPAID" ->
                            balance + (IF balance > -10000
                                       THEN 25000 ELSE 0))]_vars

\* C19 witness: a call billed in the second month, the first month's bill
\* still holding its own minutes.
C19_Witness ==
    /\ lastOp = "bill_call"
    /\ outcome = "ok"
    /\ Len(bills) = 2
    /\ billRef = 2
    /\ bills[1].billed_min > 0
    /\ bill.billed_min > 0
    /\ bills[1].billed_min # bill.billed_min

\* C20: TermContract: right after every new_month the pool usage is 0, and
\* the first call of a month, when shorter than 100 minutes, is absorbed
\* whole: billed-minutes stays 0, whatever the earlier months used.
C20_PoolIsPerMonth ==
    [][kind = "TERM"
       => /\ lastOp' = "new_month"
                => (bill'.free_min = 0 /\ bill'.billed_min = 0)
          /\ (/\ lastOp' = "bill_call"
              /\ bill # None
              /\ nCalls = 0
              /\ monthSecs' - monthSecs < 6000)
                => /\ bill'.billed_min = 0
                   /\ 60 * (bill'.free_min - 1) < monthSecs'
                   /\ monthSecs' <= 60 * bill'.free_min]_vars

\* C20 witness: a 60-minute first call absorbed in the month after one
\* whose pool was exhausted.
C20_Witness ==
    /\ kind = "TERM"
    /\ lastOp = "bill_call"
    /\ Len(bills) = 2
    /\ billRef = 2
    /\ bills[1].billed_min > 0
    /\ nCalls = 1
    /\ monthMins = 60
    /\ bill.free_min = 60
    /\ bill.billed_min = 0

\* The calls registered so far in direction dir, in registration order.
RegisteredCalls(dir) ==
    LET f == SelectSeq(registered, LAMBDA r : r.dir = dir)
    IN  [i \in 1..Len(f) |-> f[i].call]

\* Those of them whose time falls in (month, year).
RegisteredIn(dir, month, year) ==
    SelectSeq(RegisteredCalls(dir),
              LAMBDA c : c.month = month /\ c.year = year)

\* a holds every element of b exactly once, and nothing else (b has no
\* repetition).
SameCalls(a, b) ==
    /\ Len(a) = Len(b)
    /\ {a[i] : i \in 1..Len(a)} = {b[i] : i \in 1..Len(b)}

\* C16: CallHistory: get_monthly_history(month, year) returns the calls
\* registered as outgoing, and those registered as incoming, whose time is
\* in (month, year), each in registration order; with both arguments None
\* it returns every registered call of each direction exactly once; it
\* changes neither dict, and registering in one direction leaves the
\* other direction's dict alone.
C16_CallHistory ==
    [][/\ hop' = "get_monthly_history"
            => /\ outgoing_calls' = outgoing_calls
               /\ incoming_calls' = incoming_calls
               /\ (hquery'[1] # <<>> /\ hquery'[2] # <<>>)
                    => hresult' =
                        <<RegisteredIn("out", hquery'[1][1], hquery'[2][1]),
                          RegisteredIn("in", hquery'[1][1], hquery'[2][1])>>
               /\ (hquery'[1] = <<>> /\ hquery'[2] = <<>>)
                    => /\ SameCalls(hresult'[1], RegisteredCalls("out"))
                       /\ SameCalls(hresult'[2], RegisteredCalls("in"))
       /\ hop' = "register_outgoing_call"
            => incoming_calls' = incoming_calls
       /\ hop' = "register_incoming_call"
            => outgoing_calls' = outgoing_calls]_vars

\* C16 witness: a month's history holding two of three registered calls,
\* in the order they were registered.
C16_Witness ==
    /\ hop = "get_monthly_history"
    /\ hquery = << <<12>>, <<2025>> >>
    /\ Len(registered) = 3
    /\ Len(hresult[1]) = 2
    /\ hresult[1][1].id < hresult[1][2].id
    /\ Len(hresult[2]) = 0

\* seq without the later occurrences of its elements.
RECURSIVE Dedup(_)
Dedup(seq) ==
    IF seq = <<>> THEN <<>>
    ELSE LET front == Dedup(SubSeq(seq, 1, Len(seq) - 1))
             last == seq[Len(seq)]
         IN  IF InSeq(last, front) THEN front ELSE Append(front, last)

\* The filter string is the id of a customer of cs.
ValidCustomerId(cs, fs) ==
    IntParses(fs) /\ \E i \in 1..Len(cs) : get_id(cs[i]) = IntOf(fs)

\* C17: CustomerFilter.apply returns, for a valid customer id, the calls
\* made or received by that customer, each once, and for an invalid
\* filter string the list <data>.
C17_CustomerFilter ==
    fop = "CustomerFilter"
        => fresult = (IF ValidCustomerId(customers, filter_string)
                      THEN Dedup(HistoryOf(customers, IntOf(filter_string)))
                      ELSE data)

\* The filter string is four coordinates, a rectangle within the map.
ValidCoordinates(fs) ==
    /\ Len(fs) = 4
    /\ \A i \in 1..4 : fs[i].kind \in {"int", "float"}
    /\ -79697878 <= FloatOf(fs[1]).v
    /\ FloatOf(fs[1]).v <= FloatOf(fs[3]).v
    /\ FloatOf(fs[3]).v <= -79196382
    /\ 43576959 <= FloatOf(fs[2]).v
    /\ FloatOf(fs[2]).v <= FloatOf(fs[4]).v
    /\ FloatOf(fs[4]).v <= 43799568

\* The location loc is in the rectangle of the filter string, borders
\* included.
InRectangle(loc, fs) ==
    /\ FloatOf(fs[1]).v <= loc[1] /\ loc[1] <= FloatOf(fs[3]).v
    /\ FloatOf(fs[2]).v <= loc[2] /\ loc[2] <= FloatOf(fs[4]).v

\* C18: LocationFilter.apply returns, for four valid coordinates within
\* the map, the calls of <data> whose source or destination is in the
\* rectangle, in their order, and for an invalid filter string the list
\* <data>.
C18_LocationFilter ==
    fop = "LocationFilter"
        => fresult =
            (IF ValidCoordinates(filter_string)
             THEN SelectSeq(data, LAMBDA c :
                    \/ InRectangle(c.src_loc, filter_string)
                    \/ InRectangle(c.dst_loc, filter_string))
             ELSE data)

\* ------------------------------------------------ bill_call with no bill
\* C21: a bill_call made while no bill is installed raises and leaves the
\* contract as it was, whatever its class; in particular the balance of a
\* PrepaidContract is not modified.
C21_BillCallWithoutBill ==
    [][(bill = None /\ lastOp' = "bill_call")
        => /\ outcome' # "ok"
           /\ UNCHANGED <<kind, start, end, current, bill, balance>>]_vars

\* ------------------------------------------- prepaid bill and balance
\* The latest new_month made the forced top-up.
ToppedUp == PREPAID_TOPUP \in fixedArgs

====
